---- MODULE Spec2Model ----
(***************************************************************************)
(* Model of NCBidScraper (src/.github/workflows/nc_bid_scraper.py): the    *)
(* sequential fetch / link-scan / download / extract / aggregate / write   *)
(* pipeline of run(), with get_page's retry loop, the dict-based           *)
(* de-duplication, the test-mode limits, the file writes and the column    *)
(* handling of process_pdf.                                                *)
(*                                                                         *)
(* One behaviour is one execution of the script: NCBidScraper() followed   *)
(* by one run(mode).  The two output directories are part of the initial   *)
(* state, present or absent, because no line of the script creates them.   *)
(*                                                                         *)
(* Text (project names, column headers, file names) is a sequence of       *)
(* one-character strings.  PDF URLs are the resolved absolute URLs,        *)
(* numbered in order of first discovery; the anchors of a page are the     *)
(* ones that pass the keyword/.pdf filter of line 71.  The 'source' entry  *)
(* of a link, which is written and never read, the sleeps, the log lines   *)
(* other than the final warning, and the values of the timestamps are      *)
(* left out.                                                               *)
(***************************************************************************)
EXTENDS Integers, Sequences, FiniteSets, TLC

\* ------------------------------------------------------------------ bounds
\* size of the input of one run: a matching anchor counts one, or two when
\* it repeats the URL of an earlier anchor; an accepted table counts two
MaxInput == 7
\* length of the free part of a project name in SpecFile
MaxCore == 3
\* number of column headers of a raw table in SpecTables
MaxCols == 2

\* ------------------------------------------------------- program constants
\* get_page(url, retries=3, ...)
Retries == 3
\* list(unique_projects)[:5]
TestLimit == 5
\* re.sub(...)[:100]
NameLimit == 100

Min(a, b) == IF a < b THEN a ELSE b

Range(s) == {s[i] : i \in DOMAIN s}

Take(s, n) == SubSeq(s, 1, Min(n, Len(s)))

\* ------------------------------------------------------------------- text
WordChars == {"B", "i", "d", "1", "I", "t", "e", "m", "A", "a", "b", "_",
              "p", "r", "o", "j", "c", "n", "s", "u", "l", "f", "x",
              "R", "F", "g", "P", "N"}
Whitespace == {" ", "\t", "\n", "\r"}
Hyphen == "-"

\* lower case of one character of the alphabet above
Lower(c) ==
  CASE c = "B" -> "b"
    [] c = "I" -> "i"
    [] c = "A" -> "a"
    [] c = "R" -> "r"
    [] c = "F" -> "f"
    [] c = "P" -> "p"
    [] c = "N" -> "n"
    [] OTHER -> c

\* str.lower()
LowerStr(s) == [i \in DOMAIN s |-> Lower(s[i])]

\* str.replace(old, new) for one-character old and new
ReplaceChar(s, old, new) == [i \in DOMAIN s |-> IF s[i] = old THEN new ELSE s[i]]

RECURSIVE LStrip(_)
LStrip(s) ==
  IF s # <<>> /\ Head(s) \in Whitespace THEN LStrip(Tail(s)) ELSE s

RECURSIVE RStrip(_)
RStrip(s) ==
  IF s # <<>> /\ s[Len(s)] \in Whitespace
    THEN RStrip(SubSeq(s, 1, Len(s) - 1))
    ELSE s

\* str.strip()
Strip(s) == RStrip(LStrip(s))

\* re.sub(r'[^\w\s-]', '', name): the characters that are kept
KeptByStrip(c) == c \in WordChars \/ c \in Whitespace \/ c = Hyphen

PdfExt == <<".", "p", "d", "f">>

\* stem of the file name, before '.pdf'
PdfStem(name) == ReplaceChar(Take(SelectSeq(name, KeptByStrip), NameLimit), " ", "_")

PdfFileName(name) == PdfStem(name) \o PdfExt

\* str(col).lower().replace('\r',' ').replace('\n',' ').strip().replace(' ','_')
NormalizeColumn(col) ==
  ReplaceChar(
    Strip(ReplaceChar(ReplaceChar(LowerStr(col), "\r", " "), "\n", " ")),
    " ", "_")

\* ----------------------------------------------------------------- inputs
\* self.base_urls, shortened to three of its seven seed pages
BaseUrls == <<"ncadmin", "ncdot", "mecknc">>

Modes == {"test", "full"}

\* outcome of one session.get + raise_for_status
Outcomes == {"ok", "neterr", "httperr"}

N1 == <<"B", "i", "d", " ", "1">>
N2 == <<"B", "i", "d", ":", "1">>
Names == {N1, N2}

ColItem == <<"I", "t", "e", "m">>
ColBidAmt == <<"B", "i", "d", "\n", "A", "m", "t">>
ColProjectName == <<"p", "r", "o", "j", "e", "c", "t", "_", "n", "a", "m", "e">>
ColSourceUrl == <<"s", "o", "u", "r", "c", "e", "_", "u", "r", "l">>
ColPdfSourceFile == <<"p", "d", "f", "_", "s", "o", "u", "r", "c", "e", "_", "f", "i", "l", "e">>
ColPdfTableIndex == <<"p", "d", "f", "_", "t", "a", "b", "l", "e", "_", "i", "n", "d", "e", "x">>
ColScrapeTimestamp == <<"s", "c", "r", "a", "p", "e", "_", "t", "i", "m", "e", "s", "t", "a", "m", "p">>

ProvenanceColumns ==
  <<ColProjectName, ColSourceUrl, ColPdfSourceFile, ColPdfTableIndex, ColScrapeTimestamp>>

\* raw tables tabula can return: row count and column headers
RawTables ==
  { [nrows |-> 0, columns |-> <<>>],
    [nrows |-> 0, columns |-> <<ColItem, ColBidAmt>>],
    [nrows |-> 3, columns |-> <<ColItem>>],
    [nrows |-> 3, columns |-> <<ColItem, ColBidAmt>>],
    [nrows |-> 4, columns |-> <<ColItem, ColProjectName>>] }

\* non-empty results of tabula.read_pdf: one or two tables
TableSeqs == [{1} -> RawTables] \cup [{1, 2} -> RawTables]

\* ------------------------------------------------------------------ state
VARIABLES
  mode,                \* argument of run()
  rawDirExists,        \* nc_data/raw_pdfs is a directory on disk
  processedDirExists,  \* nc_data/processed_data is a directory on disk
  pc,                  \* position of the single thread of control
  caller,              \* who called get_page: "find" or "pdf"
  attempts,            \* outcomes of the GETs of the current get_page call
  response,            \* what get_page returned: "pending", "ok", "none"
  urls_to_scan,        \* run(): seed pages selected by the mode
  scanIdx,             \* run(): position of `for url in urls_to_scan`
  project_links,       \* find_project_links(): links of the current page
  all_project_links,   \* run(): links of all pages scanned so far
  projects_to_process, \* run(): de-duplicated, mode-limited links
  procIdx,             \* run(): position of `for project in projects_to_process`
  tabula,              \* tabula.read_pdf for the last document: "none" (not
                       \* called), "raised", "empty" or "tables"
  all_bids,            \* self.all_bids
  rawFiles,            \* names of the files written under raw_dir
  csvFiles,            \* tables written under processed_dir, in order
  warned,              \* "No data was extracted" was logged
  exc,                 \* exception that escaped run(), or "none"
  scanned,             \* history: arguments of find_project_links
  processed,           \* history: arguments of process_pdf
  acceptedRows,        \* history: rows of the tables that passed line 96
  anyFetchOk,          \* history: some get_page call returned a response
  nameIn,              \* SpecFile: a project name
  fileOut,             \* SpecFile: the file name derived from it
  tablesIn,            \* SpecTables: what tabula.read_pdf returned
  bidsOut              \* SpecTables: what lines 95-107 appended for it

vars ==
  <<mode, rawDirExists, processedDirExists, pc, caller, attempts, response,
    urls_to_scan, scanIdx, project_links, all_project_links,
    projects_to_process, procIdx, tabula, all_bids, rawFiles, csvFiles,
    warned, exc, scanned, processed, acceptedRows, anyFetchOk, nameIn, fileOut, tablesIn, bidsOut>>

envVars == <<mode, rawDirExists, processedDirExists>>
fileVars == <<nameIn, fileOut, tablesIn, bidsOut>>
getVars == <<caller, attempts, response, anyFetchOk>>
scanVars == <<urls_to_scan, scanIdx, project_links, all_project_links, scanned>>
procVars ==
  <<projects_to_process, procIdx, tabula, all_bids, rawFiles, processed,
    acceptedRows>>
outVars == <<csvFiles, warned, exc>>

\* ---------------------------------------------------------------- get_page
\* except requests.RequestException: a connection error or timeout raised by
\* session.get, or the HTTPError raised by raise_for_status
Caught(o) == o \in {"neterr", "httperr"}

\* what one pass of the loop records: the attempt returned or was caught
Attempt(o) == IF Caught(o) THEN "failed" ELSE "ok"

\* What the loop of get_page has decided after the attempts in `log`:
\* "ok" once an attempt succeeded, "none" when the last allowed attempt
\* failed, "pending" while another attempt is due.
GetPageResultOneMore(log) ==
  IF log[Len(log)] = "ok" THEN "ok"
  ELSE IF Len(log) - 1 = Retries THEN "none"
  ELSE "pending"

GetPageResult(log) ==
  IF log[Len(log)] = "ok" THEN "ok"
  ELSE IF Len(log) - 1 = Retries - 1 THEN "none"
  ELSE "pending"

\* one pass of `for attempt in range(retries)`
GetPageAttempt ==
  /\ pc = "get"
  /\ \E o \in Outcomes :
       LET log == Append(attempts, Attempt(o))
           res == GetPageResult(log)
       IN /\ attempts' = log
          /\ response' = res
          /\ pc' = IF res = "pending" THEN "get" ELSE "ret"
          /\ anyFetchOk' = (anyFetchOk \/ res = "ok")
  /\ UNCHANGED <<envVars, caller, scanVars, procVars, outVars, fileVars>>

\* ------------------------------------------------------ find_project_links
UrlsOf(links) == {links[i].url : i \in DOMAIN links}

SeenLinks == all_project_links \o project_links

\* input of the run consumed so far
InputSize(links, bids) ==
  Len(links) + (Len(links) - Cardinality(UrlsOf(links))) + 2 * Len(bids)

InputUsed == InputSize(SeenLinks, all_bids)

\* urls_to_scan = self.base_urls if mode == 'full' else [self.base_urls[0]]
UrlsToScan(m) == IF m = "full" THEN BaseUrls ELSE <<BaseUrls[1]>>

RunStart ==
  /\ pc = "start"
  /\ urls_to_scan' = UrlsToScan(mode)
  /\ scanIdx' = 1
  /\ pc' = "scan"
  /\ UNCHANGED <<envVars, getVars, project_links, all_project_links, scanned,
                 procVars, outVars, fileVars>>

FindProjectLinksCall ==
  /\ pc = "scan"
  /\ scanIdx <= Len(urls_to_scan)
  /\ scanned' = Append(scanned, urls_to_scan[scanIdx])
  /\ caller' = "find"
  /\ attempts' = <<>>
  /\ response' = "pending"
  /\ pc' = "get"
  /\ UNCHANGED <<envVars, anyFetchOk, urls_to_scan, scanIdx, project_links,
                 all_project_links, procVars, outVars, fileVars>>

\* if not response: return []
FindNoResponse ==
  /\ pc = "ret" /\ caller = "find" /\ response = "none"
  /\ attempts' = <<>>
  /\ response' = "pending"
  /\ scanIdx' = scanIdx + 1
  /\ pc' = "scan"
  /\ UNCHANGED <<envVars, caller, anyFetchOk, urls_to_scan, project_links,
                 all_project_links, scanned, procVars, outVars, fileVars>>

FindParse ==
  /\ pc = "ret" /\ caller = "find" /\ response = "ok"
  /\ attempts' = <<>>
  /\ response' = "pending"
  /\ project_links' = <<>>
  /\ pc' = "links"
  /\ UNCHANGED <<envVars, caller, anyFetchOk, urls_to_scan, scanIdx, all_project_links,
                 scanned, procVars, outVars, fileVars>>

\* one matching anchor of the page: project_links.append({...})
AddLink ==
  /\ pc = "links"
  /\ \E u \in 1..(Cardinality(UrlsOf(SeenLinks)) + 1), n \in Names :
       LET link == [name |-> n, url |-> u]
       IN /\ InputSize(Append(SeenLinks, link), all_bids) <= MaxInput
          /\ u \notin UrlsOf(SeenLinks) => n = N1
          /\ project_links' = Append(project_links, link)
  /\ UNCHANGED <<envVars, pc, getVars, urls_to_scan, scanIdx,
                 all_project_links, scanned, procVars, outVars, fileVars>>

\* return project_links; all_project_links.extend(...)
FinishPage ==
  /\ pc = "links"
  /\ all_project_links' = all_project_links \o project_links
  /\ project_links' = <<>>
  /\ scanIdx' = scanIdx + 1
  /\ pc' = "scan"
  /\ UNCHANGED <<envVars, getVars, urls_to_scan, scanned, procVars, outVars,
                 fileVars>>

\* ------------------------------------------------------------- run: dedupe
\* d[p['url']] = p on an insertion-ordered dict, kept as a sequence
DictPut(d, p) ==
  IF \E i \in DOMAIN d : d[i].url = p.url
    THEN [i \in DOMAIN d |-> IF d[i].url = p.url THEN p ELSE d[i]]
    ELSE Append(d, p)

RECURSIVE DictOf(_)
DictOf(links) ==
  IF links = <<>> THEN <<>>
  ELSE DictPut(DictOf(SubSeq(links, 1, Len(links) - 1)), links[Len(links)])

UniqueProjectsKeepAll(links) == links

\* {p['url']: p for p in all_project_links}.values()
UniqueProjects(links) == DictOf(links)

\* list(unique_projects) if mode == 'full' else list(unique_projects)[:5]
ProjectsToProcess(m, unique) == IF m = "full" THEN unique ELSE Take(unique, TestLimit)

Dedupe ==
  /\ pc = "scan"
  /\ scanIdx > Len(urls_to_scan)
  /\ projects_to_process' = ProjectsToProcess(mode, UniqueProjects(all_project_links))
  /\ procIdx' = 1
  /\ pc' = "process"
  /\ UNCHANGED <<envVars, getVars, scanVars, tabula, all_bids, rawFiles,
                 processed, acceptedRows, outVars, fileVars>>

\* ------------------------------------------------------------- process_pdf
\* df.empty or len(df.columns) < 2
Rejected(df) == df.nrows = 0 \/ Len(df.columns) = 0 \/ Len(df.columns) < 2

\* df[c] = value: a new column at the end, or the existing column overwritten
SetColumn(cols, c) == IF c \in Range(cols) THEN cols ELSE Append(cols, c)

RECURSIVE SetColumns(_, _)
SetColumns(cols, new) ==
  IF new = <<>> THEN cols
  ELSE SetColumns(SetColumn(cols, Head(new)), Tail(new))

\* lines 98-105 for the table at enumerate index i
Annotate(df, project, i) ==
  LET cols == SetColumns(df.columns, ProvenanceColumns)
  IN [nrows |-> df.nrows,
      columns |-> [k \in DOMAIN cols |-> NormalizeColumn(cols[k])],
      project_name |-> project.name,
      source_url |-> project.url,
      pdf_source_file |-> PdfFileName(project.name),
      pdf_table_index |-> i]

\* the loop of lines 95-107 over tables[k..], enumerate index k - 1
RECURSIVE AcceptFrom(_, _, _)
AcceptFrom(tables, project, k) ==
  IF k > Len(tables) THEN <<>>
  ELSE IF Rejected(tables[k]) THEN AcceptFrom(tables, project, k + 1)
  ELSE <<Annotate(tables[k], project, k - 1)>> \o AcceptFrom(tables, project, k + 1)

AcceptTables(tables, project) == AcceptFrom(tables, project, 1)

RECURSIVE RowsPassing(_)
RowsPassing(tables) ==
  IF tables = <<>> THEN 0
  ELSE (IF Head(tables).nrows > 0 /\ Len(Head(tables).columns) >= 2
          THEN Head(tables).nrows ELSE 0) + RowsPassing(Tail(tables))

CurrentProject == projects_to_process[procIdx]

ProcessPdfCall ==
  /\ pc = "process"
  /\ procIdx <= Len(projects_to_process)
  /\ processed' = Append(processed, CurrentProject)
  /\ tabula' = "none"
  /\ caller' = "pdf"
  /\ attempts' = <<>>
  /\ response' = "pending"
  /\ pc' = "get"
  /\ UNCHANGED <<envVars, anyFetchOk, scanVars, projects_to_process, procIdx,
                 all_bids, rawFiles, acceptedRows, outVars, fileVars>>

\* if not response: return
PdfNoResponse ==
  /\ pc = "ret" /\ caller = "pdf" /\ response = "none"
  /\ attempts' = <<>>
  /\ response' = "pending"
  /\ procIdx' = procIdx + 1
  /\ pc' = "process"
  /\ UNCHANGED <<envVars, caller, anyFetchOk, scanVars, projects_to_process, tabula,
                 all_bids, rawFiles, processed, acceptedRows, outVars, fileVars>>

\* open(pdf_path, 'wb') when raw_dir is no directory: FileNotFoundError,
\* raised outside the try block
PdfOpenFails ==
  /\ pc = "ret" /\ caller = "pdf" /\ response = "ok"
  /\ ~rawDirExists
  /\ exc' = "FileNotFoundError"
  /\ pc' = "crashed"
  /\ UNCHANGED <<envVars, getVars, scanVars, procVars, csvFiles, warned, fileVars>>

PdfExtractRaisesUncaught ==
  /\ pc = "ret" /\ caller = "pdf" /\ response = "ok"
  /\ rawDirExists
  /\ rawFiles' = rawFiles \cup {PdfFileName(projects_to_process[procIdx].name)}
  /\ tabula' = "raised"
  /\ exc' = "Exception"
  /\ pc' = "crashed"
  /\ UNCHANGED <<envVars, getVars, scanVars, projects_to_process, procIdx,
                 all_bids, processed, acceptedRows, csvFiles, warned, fileVars>>

\* the file is written, tabula.read_pdf raises, except Exception logs it
PdfExtractRaises ==
  /\ pc = "ret" /\ caller = "pdf" /\ response = "ok"
  /\ rawDirExists
  /\ rawFiles' = rawFiles \cup {PdfFileName(CurrentProject.name)}
  /\ tabula' = "raised"
  /\ attempts' = <<>>
  /\ response' = "pending"
  /\ procIdx' = procIdx + 1
  /\ pc' = "process"
  /\ UNCHANGED <<envVars, caller, anyFetchOk, scanVars, projects_to_process, all_bids,
                 processed, acceptedRows, outVars, fileVars>>

\* the file is written, tabula.read_pdf returns []: if not tables: return
PdfExtractEmpty ==
  /\ pc = "ret" /\ caller = "pdf" /\ response = "ok"
  /\ rawDirExists
  /\ rawFiles' = rawFiles \cup {PdfFileName(CurrentProject.name)}
  /\ tabula' = "empty"
  /\ attempts' = <<>>
  /\ response' = "pending"
  /\ procIdx' = procIdx + 1
  /\ pc' = "process"
  /\ UNCHANGED <<envVars, caller, anyFetchOk, scanVars, projects_to_process, all_bids,
                 processed, acceptedRows, outVars, fileVars>>

\* the file is written, tabula.read_pdf returns tables, lines 95-108
PdfExtractTables ==
  /\ pc = "ret" /\ caller = "pdf" /\ response = "ok"
  /\ rawDirExists
  /\ \E tables \in TableSeqs :
       LET bids == all_bids \o AcceptTables(tables, CurrentProject)
       IN /\ InputSize(SeenLinks, bids) <= MaxInput
          /\ all_bids' = bids
          /\ tabula' = "tables"
          /\ acceptedRows' = acceptedRows + RowsPassing(tables)
  /\ rawFiles' = rawFiles \cup {PdfFileName(CurrentProject.name)}
  /\ attempts' = <<>>
  /\ response' = "pending"
  /\ procIdx' = procIdx + 1
  /\ pc' = "process"
  /\ UNCHANGED <<envVars, caller, anyFetchOk, scanVars, projects_to_process, processed,
                 outVars, fileVars>>

\* -------------------------------------------------------------- run: write
RECURSIVE SumRows(_)
SumRows(bids) == IF bids = <<>> THEN 0 ELSE Head(bids).nrows + SumRows(Tail(bids))

\* columns of the concatenation: union, in order of first appearance
RECURSIVE ConcatColumns(_)
ConcatColumns(bids) ==
  IF bids = <<>> THEN <<>>
  ELSE LET before == ConcatColumns(SubSeq(bids, 1, Len(bids) - 1))
           IsNew(c) == c \notin Range(before)
       IN before \o SelectSeq(bids[Len(bids)].columns, IsNew)

Block(b) ==
  [source_url |-> b.source_url, pdf_table_index |-> b.pdf_table_index, nrows |-> b.nrows]

ConcatDropsFirst(bids) ==
  [nrows |-> SumRows(Tail(bids)),
   blocks |-> [i \in DOMAIN Tail(bids) |-> Block(Tail(bids)[i])],
   columns |-> ConcatColumns(bids)]

\* pd.concat(self.all_bids, ignore_index=True)
Concat(bids) ==
  [nrows |-> SumRows(bids),
   blocks |-> [i \in DOMAIN bids |-> Block(bids[i])],
   columns |-> ConcatColumns(bids)]

AllProcessed == pc = "process" /\ procIdx > Len(projects_to_process)

\* if self.all_bids: ... final_df.to_csv(output_path, index=False)
WriteCsv ==
  /\ AllProcessed
  /\ all_bids # <<>>
  /\ processedDirExists
  /\ csvFiles' = Append(csvFiles, Concat(all_bids))
  /\ pc' = "done"
  /\ UNCHANGED <<envVars, getVars, scanVars, procVars, warned, exc, fileVars>>

\* to_csv when processed_dir is no directory: OSError escapes run()
WriteCsvFails ==
  /\ AllProcessed
  /\ all_bids # <<>>
  /\ ~processedDirExists
  /\ exc' = "OSError"
  /\ pc' = "crashed"
  /\ UNCHANGED <<envVars, getVars, scanVars, procVars, csvFiles, warned, fileVars>>

NoDataWritesEmptyFile ==
  /\ pc = "process" /\ procIdx > Len(projects_to_process)
  /\ all_bids = <<>>
  /\ processedDirExists
  /\ csvFiles' = Append(csvFiles, Concat(all_bids))
  /\ warned' = TRUE
  /\ pc' = "done"
  /\ UNCHANGED <<envVars, getVars, scanVars, procVars, exc, fileVars>>

\* else: logging.warning("No data was extracted. Output file not created.")
NoData ==
  /\ AllProcessed
  /\ all_bids = <<>>
  /\ warned' = TRUE
  /\ pc' = "done"
  /\ UNCHANGED <<envVars, getVars, scanVars, procVars, csvFiles, exc, fileVars>>

\* ------------------------------------------------------------ specification
\* NCBidScraper() followed by run(mode): nothing creates the directories
InitRun ==
  /\ pc = "start"
  /\ caller = "none"
  /\ attempts = <<>>
  /\ response = "pending"
  /\ urls_to_scan = <<>>
  /\ scanIdx = 1
  /\ project_links = <<>>
  /\ all_project_links = <<>>
  /\ projects_to_process = <<>>
  /\ procIdx = 1
  /\ tabula = "none"
  /\ all_bids = <<>>
  /\ rawFiles = {}
  /\ csvFiles = <<>>
  /\ warned = FALSE
  /\ exc = "none"
  /\ scanned = <<>>
  /\ processed = <<>>
  /\ acceptedRows = 0
  /\ anyFetchOk = FALSE

Init ==
  /\ mode \in Modes
  /\ rawDirExists \in BOOLEAN
  /\ processedDirExists \in BOOLEAN
  /\ InitRun
  /\ nameIn = <<>>
  /\ fileOut = <<>>
  /\ tablesIn = <<>>
  /\ bidsOut = <<>>

Next ==
  \/ RunStart
  \/ FindProjectLinksCall
  \/ GetPageAttempt
  \/ FindNoResponse
  \/ FindParse
  \/ AddLink
  \/ FinishPage
  \/ Dedupe
  \/ ProcessPdfCall
  \/ PdfNoResponse
  \/ PdfOpenFails
  \/ PdfExtractRaises
  \/ PdfExtractEmpty
  \/ PdfExtractTables
  \/ WriteCsv
  \/ WriteCsvFails
  \/ NoData

Spec == Init /\ [][Next]_vars

\* ------------------------------------------- file name derivation on its own
NameAlphabet == {"B", "_", "-", " ", "\t", ":", "!"}

NameCores == UNION { [1..n -> NameAlphabet] : n \in 0..MaxCore }

\* the name of the example of the specification: Bid: Road/Bridge (Final)!!
ExampleName ==
  <<"B", "i", "d", ":", " ", "R", "o", "a", "d", "/", "B", "r", "i", "d", "g", "e",
    " ", "(", "F", "i", "n", "a", "l", ")", "!", "!">>

ExampleFile ==
  <<"B", "i", "d", "_", "R", "o", "a", "d", "B", "r", "i", "d", "g", "e",
    "_", "F", "i", "n", "a", "l", ".", "p", "d", "f">>

\* anchor text that passes line 71 and get_text(strip=True): the keyword
\* "Bid", a core, and a run of one word character up to and over the limit
Keyword == <<"B", "i", "d">>

Padded(core, k) == Keyword \o core \o [i \in 1..k |-> "x"]

NameInputs ==
  {ExampleName}
    \cup {n \in {Padded(c, k) : c \in NameCores,
                                k \in {0, NameLimit - Len(Keyword) - 1,
                                       NameLimit - Len(Keyword)}} :
            Strip(n) = n}

InitFile ==
  /\ mode = "test"
  /\ rawDirExists = TRUE
  /\ processedDirExists = TRUE
  /\ InitRun
  /\ nameIn \in NameInputs
  /\ fileOut = <<>>
  /\ tablesIn = <<>>
  /\ bidsOut = <<>>

\* line 85 applied to nameIn
DeriveFileName ==
  /\ fileOut = <<>>
  /\ fileOut' = PdfFileName(nameIn)
  /\ UNCHANGED <<envVars, pc, getVars, scanVars, procVars, outVars, nameIn,
                 tablesIn, bidsOut>>

NextFile == DeriveFileName

SpecFile == InitFile /\ [][NextFile]_vars

\* ------------------------------------------------- table acceptance on its own
ColProjectNameSp == <<"P", "r", "o", "j", "e", "c", "t", " ", "N", "a", "m", "e">>

Headers == {ColItem, ColBidAmt, ColProjectName, ColProjectNameSp}

HeaderLists == UNION { [1..n -> Headers] : n \in 0..MaxCols }

RawTableInputs == { [nrows |-> r, columns |-> c] : r \in {0, 3}, c \in HeaderLists }

TableInputs == [{1} -> RawTableInputs] \cup [{1, 2} -> RawTableInputs]

SampleProject == [name |-> N1, url |-> 1]

InitTables ==
  /\ mode = "test"
  /\ rawDirExists = TRUE
  /\ processedDirExists = TRUE
  /\ InitRun
  /\ nameIn = <<>>
  /\ fileOut = <<>>
  /\ tablesIn \in TableInputs
  /\ bidsOut = <<>>

\* lines 95-107 applied to tablesIn
AcceptStep ==
  /\ tabula = "none"
  /\ tabula' = "tables"
  /\ bidsOut' = AcceptTables(tablesIn, SampleProject)
  /\ UNCHANGED <<envVars, pc, getVars, scanVars, projects_to_process, procIdx,
                 all_bids, rawFiles, processed, acceptedRows, outVars, nameIn,
                 fileOut, tablesIn>>

NextTables == AcceptStep

SpecTables == InitTables /\ [][NextTables]_vars

\* --------------------------------------------------------------- properties
RunEnded == pc \in {"done", "crashed"}

AllFailed(log) == \A i \in DOMAIN log : log[i] = "failed"

\* C1: a get_page call issues at least one and at most Retries GETs, never
\* issues a GET after one that succeeded, returns the response exactly when
\* its last GET succeeded, and returns None, raising nothing, exactly when
\* all Retries GETs failed.
C1_GetPageContract ==
  /\ Len(attempts) <= Retries
  /\ \A i \in DOMAIN attempts : i < Len(attempts) => attempts[i] = "failed"
  /\ pc = "get" => response = "pending" /\ AllFailed(attempts)
  /\ pc = "ret" =>
       /\ Len(attempts) >= 1
       /\ response \in {"ok", "none"}
       /\ response = "ok" <=> attempts[Len(attempts)] = "ok"
       /\ response = "none" <=> (Len(attempts) = Retries /\ AllFailed(attempts))
       /\ exc = "none"

C1_Witness ==
  /\ pc = "ret"
  /\ response = "none"
  /\ Len(attempts) = Retries
  /\ caller = "pdf"

\* C2: while no fetch of the run has returned a response, nothing has been
\* processed, collected or written, no exception has escaped, the run can
\* always take its next step until it is done, and it ends with the warning
\* and without a CSV file.
C2_AllFetchesFail ==
  ~anyFetchOk =>
    /\ exc = "none" /\ pc # "crashed"
    /\ all_bids = <<>>
    /\ rawFiles = {}
    /\ csvFiles = <<>>
    /\ projects_to_process = <<>> /\ processed = <<>>
    /\ pc # "done" => ENABLED Next
    /\ pc = "done" => warned /\ scanned = UrlsToScan(mode)

C2_Witness ==
  /\ pc = "done"
  /\ ~anyFetchOk
  /\ mode = "full"
  /\ Len(scanned) = Len(BaseUrls)
  /\ ~rawDirExists /\ ~processedDirExists

\* the entry of all_project_links discovered last for url u
LastFor(links, u) ==
  links[CHOOSE i \in DOMAIN links :
          /\ links[i].url = u
          /\ \A j \in DOMAIN links : links[j].url = u => j <= i]

\* C3: process_pdf is called at most once per URL, and the entry it is
\* called with is the last one discovered for that URL.
C3_OncePerUrl ==
  /\ \A i, j \in DOMAIN processed :
       processed[i].url = processed[j].url => i = j
  /\ \A i \in DOMAIN processed :
       /\ processed[i].url \in UrlsOf(all_project_links)
       /\ processed[i] = LastFor(all_project_links, processed[i].url)

C3_Witness ==
  /\ \E i \in DOMAIN processed :
       /\ processed[i].name = N2
       /\ \E j \in DOMAIN all_project_links :
            /\ all_project_links[j].url = processed[i].url
            /\ all_project_links[j].name = N1
  /\ Len(all_project_links) > Len(projects_to_process)
  /\ Len(processed) = Len(projects_to_process)
  /\ Len(processed) >= 2

NumUnique == Cardinality(UrlsOf(all_project_links))

\* C4: when run() has ended, test mode has scanned exactly the first seed and
\* called process_pdf on min(5, unique URLs) links; full mode has scanned
\* every seed in list order and called process_pdf on every unique URL.
C4_ModeBounds ==
  RunEnded =>
    /\ mode = "test" =>
         /\ scanned = <<BaseUrls[1]>>
         /\ Len(processed) = Min(TestLimit, NumUnique)
    /\ mode = "full" =>
         /\ scanned = BaseUrls
         /\ Len(processed) = NumUnique

\* C5: when run() has ended, a CSV file has been written exactly when
\* all_bids is non-empty, at most one was written, and with all_bids empty
\* only the warning was logged.
C5_WriteIffData ==
  /\ Len(csvFiles) <= 1
  /\ csvFiles # <<>> => pc = "done" /\ Len(processed) = Len(projects_to_process)
  /\ RunEnded =>
       /\ csvFiles # <<>> <=> all_bids # <<>>
       /\ all_bids = <<>> /\ pc = "done" => warned

\* C7: the run reaches each file write with its directory present and no
\* exception for a missing directory escapes.
C7_DirectoriesPresent ==
  /\ pc = "ret" /\ caller = "pdf" /\ response = "ok" => rawDirExists
  /\ AllProcessed /\ all_bids # <<>> => processedDirExists
  /\ exc \notin {"FileNotFoundError", "OSError"}

\* C8: a step in which tabula.read_pdf raises or returns nothing leaves
\* all_bids as it was, lets no exception escape and returns to the loop of
\* run() at the next document; a run that ends normally has called
\* process_pdf for every selected document.
C8_ExtractionFailureSkips ==
  [][ /\ tabula' \in {"raised", "empty"} /\ tabula = "none"
        => /\ all_bids' = all_bids
           /\ exc' = "none"
           /\ pc' = "process"
           /\ procIdx' = procIdx + 1
           /\ processed' = processed
      /\ pc' = "done" => Len(processed') = Len(projects_to_process') ]_vars

C8_Witness ==
  /\ pc = "get" /\ caller = "pdf"
  /\ procIdx = 3
  /\ all_bids # <<>>
  /\ Cardinality(rawFiles) = 2

\* position of url u in the order process_pdf was called
CallIndex(u) == CHOOSE i \in DOMAIN processed : processed[i].url = u

\* C10: a written file has as many rows as the tables accepted in the run
\* have together, in blocks that follow the order of acceptance: document
\* by document in processing order, table by table within a document.
C10_RowsAreSum ==
  \A f \in DOMAIN csvFiles :
    LET csv == csvFiles[f] IN
    /\ csv.nrows = acceptedRows
    /\ Len(csv.blocks) = Len(all_bids)
    /\ \A i \in DOMAIN csv.blocks :
         /\ csv.blocks[i].nrows = all_bids[i].nrows
         /\ csv.blocks[i].source_url \in UrlsOf(processed)
    /\ \A i, j \in DOMAIN csv.blocks :
         i < j =>
           \/ CallIndex(csv.blocks[i].source_url) < CallIndex(csv.blocks[j].source_url)
           \/ /\ csv.blocks[i].source_url = csv.blocks[j].source_url
              /\ csv.blocks[i].pdf_table_index < csv.blocks[j].pdf_table_index

C10_Witness ==
  /\ pc = "done"
  /\ Len(csvFiles) = 1
  /\ Len(csvFiles[1].blocks) = 2
  /\ csvFiles[1].nrows = 7
  /\ csvFiles[1].blocks[1].source_url # csvFiles[1].blocks[2].source_url

\* ---- table acceptance (SpecTables)
Valid(df) == Len(df.columns) >= 2 /\ df.nrows >= 1

ValidIndexes(tables) == {k \in DOMAIN tables : Valid(tables[k])}

\* C6: a table with fewer than two columns or no rows is not appended; every
\* other table is appended once, with its own columns, normalized, followed
\* by exactly the five provenance columns.
C6_AcceptedColumns ==
  tabula = "tables" /\ pc = "start" =>
    /\ Len(bidsOut) = Cardinality(ValidIndexes(tablesIn))
    /\ \A k \in ValidIndexes(tablesIn) :
         \E b \in DOMAIN bidsOut :
           /\ bidsOut[b].pdf_table_index = k - 1
           /\ bidsOut[b].nrows = tablesIn[k].nrows
           /\ bidsOut[b].columns =
                [c \in DOMAIN tablesIn[k].columns |->
                   NormalizeColumn(tablesIn[k].columns[c])] \o ProvenanceColumns

\* ---- file name (SpecFile)
Stem(file) == SubSeq(file, 1, Len(file) - Len(PdfExt))

\* C9: before '.pdf' the file name has at most 100 characters, each a word
\* character (the underscore that stands for a space is one) or a hyphen,
\* and the example name gives Bid_RoadBridge_Final.pdf.
C9_SafeFileName ==
  fileOut # <<>> =>
    /\ Len(fileOut) >= Len(PdfExt)
    /\ SubSeq(fileOut, Len(fileOut) - Len(PdfExt) + 1, Len(fileOut)) = PdfExt
    /\ Len(Stem(fileOut)) <= NameLimit
    /\ \A i \in DOMAIN Stem(fileOut) :
         Stem(fileOut)[i] \in WordChars \cup {Hyphen}
    /\ nameIn = ExampleName => fileOut = ExampleFile

====
